---- MODULE Spec2Model ----
(***************************************************************************)
(* A model of poppy's weighted sample sets (src/poppy/samples.py) and of   *)
(* the MCMC drivers that build them (src/poppy/samplers/mcmc.py).          *)
(*                                                                         *)
(* Floating-point numbers are modelled exactly.  A number is a record      *)
(* [k, n, d]: k is "fin", "nan", "pinf" or "ninf"; for a finite number n/d *)
(* is a reduced fraction.  A field holds its number in one of three        *)
(* readings:                                                               *)
(*   log reading    (log_likelihood, log_prior, log_q, log_w,              *)
(*                   log_evidence):   the number is ln(n/d), n > 0         *)
(*   linear reading (weights, evidence, effective_sample_size): n/d        *)
(*   root reading   (evidence_error, log_evidence_error):  sqrt(n/d)       *)
(* so that exp, logsumexp and sqrt are computed without rounding, and the  *)
(* IEEE rules for infinities and NaN are kept.                             *)
(***************************************************************************)
EXTENDS Integers, Sequences, FiniteSets, TLC

\* ------------------------------------------------------------- bounds
\* Largest number of draws (rows of x) of a constructed set.
MaxN == 2

\* ------------------------------------------------------------ numbers
NaN == [k |-> "nan", n |-> 0, d |-> 1]
PInf == [k |-> "pinf", n |-> 0, d |-> 1]
NInf == [k |-> "ninf", n |-> 0, d |-> 1]

AbsInt(i) == IF i < 0 THEN -i ELSE i

RECURSIVE GCD(_, _)
GCD(a, b) == IF b = 0 THEN a ELSE GCD(b, a % b)

\* The finite number n/d (d > 0), reduced.
Fin(n, d) ==
    LET g == GCD(AbsInt(n), d)
    IN  [k |-> "fin", n |-> n \div g, d |-> d \div g]

IsNaN(a) == a.k = "nan"
IsFin(a) == a.k = "fin"

RECURSIVE IntPow(_, _)
IntPow(b, e) == IF e = 0 THEN 1 ELSE b * IntPow(b, e - 1)

\* ---- linear reading: n/d
Neg(a) ==
    CASE a.k = "nan" -> NaN
      [] a.k = "pinf" -> NInf
      [] a.k = "ninf" -> PInf
      [] OTHER -> Fin(-a.n, a.d)

Add(a, b) ==
    CASE a.k = "nan" \/ b.k = "nan" -> NaN
      [] a.k = "pinf" -> IF b.k = "ninf" THEN NaN ELSE PInf
      [] a.k = "ninf" -> IF b.k = "pinf" THEN NaN ELSE NInf
      [] b.k = "pinf" -> PInf
      [] b.k = "ninf" -> NInf
      [] OTHER -> Fin(a.n * b.d + b.n * a.d, a.d * b.d)

Sub(a, b) == Add(a, Neg(b))

Mul(a, b) ==
    LET sa == IF a.k = "pinf" THEN 1 ELSE IF a.k = "ninf" THEN -1
              ELSE IF a.n > 0 THEN 1 ELSE IF a.n < 0 THEN -1 ELSE 0
        sb == IF b.k = "pinf" THEN 1 ELSE IF b.k = "ninf" THEN -1
              ELSE IF b.n > 0 THEN 1 ELSE IF b.n < 0 THEN -1 ELSE 0
    IN  CASE a.k = "nan" \/ b.k = "nan" -> NaN
          [] a.k = "fin" /\ b.k = "fin" -> Fin(a.n * b.n, a.d * b.d)
          [] sa * sb = 0 -> NaN
          [] sa * sb > 0 -> PInf
          [] OTHER -> NInf

\* a / m for a machine float a and an integer m >= 0 (x / 0 is nan or an
\* infinity for array scalars, never an exception).
DivInt(a, m) ==
    CASE a.k = "nan" -> NaN
      [] a.k = "pinf" -> PInf
      [] a.k = "ninf" -> NInf
      [] m = 0 -> IF a.n = 0 THEN NaN ELSE IF a.n > 0 THEN PInf ELSE NInf
      [] OTHER -> Fin(a.n, a.d * m)

\* a / b for two machine floats.
Div(a, b) ==
    CASE a.k = "nan" \/ b.k = "nan" -> NaN
      [] b.k \in {"pinf", "ninf"} -> IF a.k = "fin" THEN Fin(0, 1) ELSE NaN
      [] b.n = 0 -> IF a.k = "pinf" THEN PInf
                    ELSE IF a.k = "ninf" THEN NInf
                    ELSE IF a.n = 0 THEN NaN
                    ELSE IF a.n > 0 THEN PInf ELSE NInf
      [] a.k = "pinf" -> IF b.n > 0 THEN PInf ELSE NInf
      [] a.k = "ninf" -> IF b.n > 0 THEN NInf ELSE PInf
      [] OTHER -> IF b.n > 0 THEN Fin(a.n * b.d, a.d * b.n)
                  ELSE Fin(-(a.n * b.d), a.d * (-b.n))

\* a >= 0 as the machine decides it: false for NaN.
GeZero(a) == a.k = "pinf" \/ (a.k = "fin" /\ a.n >= 0)

RECURSIVE SumSeq(_)
SumSeq(v) == IF Len(v) = 0 THEN Fin(0, 1) ELSE Add(Head(v), SumSeq(Tail(v)))

\* ---- log reading: ln(n/d)
Ln(n, d) == Fin(n, d)

\* math.log(m) for an integer m >= 1.
LogInt(m) == Ln(m, 1)

LAdd(a, b) ==
    CASE a.k = "nan" \/ b.k = "nan" -> NaN
      [] a.k = "pinf" -> IF b.k = "ninf" THEN NaN ELSE PInf
      [] a.k = "ninf" -> IF b.k = "pinf" THEN NaN ELSE NInf
      [] b.k = "pinf" -> PInf
      [] b.k = "ninf" -> NInf
      [] OTHER -> Fin(a.n * b.n, a.d * b.d)

LNeg(a) ==
    CASE a.k = "nan" -> NaN
      [] a.k = "pinf" -> NInf
      [] a.k = "ninf" -> PInf
      [] OTHER -> Fin(a.d, a.n)

LSub(a, b) == LAdd(a, LNeg(b))

\* c * a for an integer c and a log-reading number a.
LScale(c, a) ==
    CASE a.k = "nan" -> NaN
      [] c = 0 -> IF a.k = "fin" THEN Ln(1, 1) ELSE NaN
      [] a.k = "pinf" -> IF c > 0 THEN PInf ELSE NInf
      [] a.k = "ninf" -> IF c > 0 THEN NInf ELSE PInf
      [] c > 0 -> Fin(IntPow(a.n, c), IntPow(a.d, c))
      [] OTHER -> Fin(IntPow(a.d, -c), IntPow(a.n, -c))

\* a > b as the machine decides it: false when either is NaN.
LGt(a, b) ==
    CASE a.k = "nan" \/ b.k = "nan" -> FALSE
      [] a.k = "pinf" -> b.k # "pinf"
      [] a.k = "ninf" -> FALSE
      [] b.k = "pinf" -> FALSE
      [] b.k = "ninf" -> TRUE
      [] OTHER -> a.n * b.d > b.n * a.d

\* xp.max of a non-empty vector: NaN if any element is NaN.
RECURSIVE LMax(_)
LMax(v) ==
    IF Len(v) = 1 THEN Head(v)
    ELSE LET m == LMax(Tail(v))
         IN  IF IsNaN(Head(v)) \/ IsNaN(m) THEN NaN
             ELSE IF LGt(Head(v), m) THEN Head(v) ELSE m

\* xp.exp: log reading to linear reading.
Exp(a) ==
    CASE a.k = "nan" -> NaN
      [] a.k = "pinf" -> PInf
      [] a.k = "ninf" -> Fin(0, 1)
      [] OTHER -> Fin(a.n, a.d)

\* log of a linear-reading number.
Log(a) ==
    CASE a.k = "nan" -> NaN
      [] a.k = "pinf" -> PInf
      [] a.k = "ninf" -> NaN
      [] a.n < 0 -> NaN
      [] a.n = 0 -> NInf
      [] OTHER -> Ln(a.n, a.d)

\* ---- root reading: sqrt(n/d)
\* xp.sqrt: linear reading to root reading.
Sqrt(a) ==
    CASE a.k = "nan" -> NaN
      [] a.k = "pinf" -> PInf
      [] a.k = "ninf" -> NaN
      [] a.n < 0 -> NaN
      [] OTHER -> Fin(a.n, a.d)

\* xp.abs(r / z) for a root-reading r and a linear-reading z.
AbsRootDiv(r, z) ==
    CASE r.k = "nan" \/ z.k = "nan" -> NaN
      [] z.k \in {"pinf", "ninf"} -> IF r.k = "fin" THEN Fin(0, 1) ELSE NaN
      [] z.n = 0 -> IF r.k = "fin" /\ r.n = 0 THEN NaN ELSE PInf
      [] r.k = "pinf" -> PInf
      [] OTHER -> Fin(r.n * z.d * z.d, r.d * z.n * z.n)

\* logsumexp of a non-empty vector (poppy.utils.logsumexp): the maximum c is
\* taken out before exponentiating, c + log(sum(exp(v - c))).  Two
\* implementations are in use and differ on vectors whose maximum is not
\* finite: "shift" subtracts the maximum as it is, "guard" subtracts 0 then.
LseImpls == {"shift", "guard"}

\* Where no weights are computed the implementation is not reached.
AnyImpl == CHOOSE i \in LseImpls : TRUE

LogSumExp(impl, v) ==
    LET m == LMax(v)
        c == IF impl = "guard" /\ ~IsFin(m) THEN Ln(1, 1) ELSE m
        e == [i \in 1..Len(v) |-> Exp(LSub(v[i], c))]
    IN  LAdd(c, Log(SumSeq(e)))

\* ------------------------------------------------------------ vectors
None == <<>>
Some(v) == <<v>>
IsNone(o) == Len(o) = 0
Val(o) == o[1]

\* Array broadcasting of two 1-d arrays: equal lengths, or one of length 1,
\* which is stretched to the other's length (to no entry if that is empty).
Broadcastable(a, b) == Len(a) = Len(b) \/ Len(a) = 1 \/ Len(b) = 1
BroadcastLen(a, b) == IF Len(a) = 1 THEN Len(b) ELSE Len(a)
At(v, i) == IF Len(v) = 1 THEN v[1] ELSE v[i]
VAdd(a, b) == [i \in 1..BroadcastLen(a, b) |-> LAdd(At(a, i), At(b, i))]
VSub(a, b) == [i \in 1..BroadcastLen(a, b) |-> LSub(At(a, i), At(b, i))]

\* a[mask] and a[idx]
RECURSIVE TrueIndices(_, _)
TrueIndices(mask, i) ==
    IF i > Len(mask) THEN <<>>
    ELSE (IF mask[i] THEN <<i>> ELSE <<>>) \o TrueIndices(mask, i + 1)
Take(a, idx) == [k \in 1..Len(idx) |-> a[idx[k]]]

\* ------------------------------------------------------- sample sets
DefaultParameters == <<"x_0">>

\* BaseSamples.__post_init__: the arrays are converted to the namespace of x
\* as they are (no length is compared), parameters default to x_0..x_{D-1}.
BaseSamples(cls, x, ll, lp, lq, parameters) ==
    [cls |-> cls,
     x |-> x,
     log_likelihood |-> ll,
     log_prior |-> lp,
     log_q |-> lq,
     parameters |-> IF IsNone(parameters) THEN DefaultParameters
                    ELSE Val(parameters),
     log_w |-> None,
     weights |-> None,
     evidence |-> None,
     evidence_error |-> None,
     log_evidence |-> None,
     log_evidence_error |-> None,
     effective_sample_size |-> None,
     beta |-> None,
     has_log_evidence_error |-> cls = "Samples"]

HasAllDensities(s) ==
    ~IsNone(s.log_likelihood) /\ ~IsNone(s.log_prior) /\ ~IsNone(s.log_q)

\* The exception line 199 raises, "ok" if none.
WeightsError(s) ==
    IF ~HasAllDensities(s) THEN "TypeError"
    ELSE IF ~Broadcastable(Val(s.log_likelihood), Val(s.log_prior))
            \/ ~Broadcastable(VAdd(Val(s.log_likelihood), Val(s.log_prior)),
                              Val(s.log_q))
         THEN "ValueError"
         ELSE "ok"

\* log_w as line 199 stores it.
LogW(s) == VSub(VAdd(Val(s.log_likelihood), Val(s.log_prior)), Val(s.log_q))

\* Line 200 raises once log_w is stored: logsumexp takes the maximum of
\* log_w, which an empty array does not have, and math.log(len(x)) is not
\* defined for an empty x.
EvidenceError(s) ==
    IF Len(LogW(s)) = 0 \/ Len(s.x) = 0 THEN "ValueError" ELSE "ok"

\* n * (n - 1), the divisor of the evidence error.
ErrorDivisor(n) == n * (n - 1)

\* A compute_weights that ends after line 211: the effective sample size is
\* not stored.
ComputeWeightsWithoutEss(s, impl) ==
    LET log_w == LogW(s)
        log_evidence == LSub(LogSumExp(impl, log_w), LogInt(Len(s.x)))
        weights == [i \in 1..Len(log_w) |-> Exp(log_w[i])]
        evidence == Exp(log_evidence)
        sq == [i \in 1..Len(weights) |->
                 Mul(Sub(weights[i], evidence), Sub(weights[i], evidence))]
        evidence_error == Sqrt(DivInt(SumSeq(sq), ErrorDivisor(Len(s.x))))
    IN  [s EXCEPT !.log_w = Some(log_w),
                  !.log_evidence = Some(log_evidence),
                  !.weights = Some(weights),
                  !.evidence = Some(evidence),
                  !.evidence_error = Some(evidence_error),
                  !.log_evidence_error =
                      Some(AbsRootDiv(evidence_error, evidence))]

\* Samples.compute_weights on a set whose densities add up: the set with the
\* derived fields stored on it.
ComputeWeights(s, impl) ==
    LET log_w == LogW(s)
        log_evidence == LSub(LogSumExp(impl, log_w), LogInt(Len(s.x)))
        weights == [i \in 1..Len(log_w) |-> Exp(log_w[i])]
        evidence == Exp(log_evidence)
        n == Len(s.x)
        sq == [i \in 1..Len(weights) |->
                 Mul(Sub(weights[i], evidence), Sub(weights[i], evidence))]
        evidence_error == Sqrt(DivInt(SumSeq(sq), ErrorDivisor(n)))
        mx == LMax(log_w)
        shifted == [i \in 1..Len(log_w) |-> LSub(log_w[i], mx)]
        doubled == [i \in 1..Len(log_w) |-> LScale(2, shifted[i])]
        ess == Exp(LSub(LScale(2, LogSumExp(impl, shifted)),
                        LogSumExp(impl, doubled)))
    IN  [s EXCEPT !.log_w = Some(log_w),
                  !.log_evidence = Some(log_evidence),
                  !.weights = Some(weights),
                  !.evidence = Some(evidence),
                  !.evidence_error = Some(evidence_error),
                  !.log_evidence_error =
                      Some(AbsRootDiv(evidence_error, evidence)),
                  !.effective_sample_size = Some(ess)]

\* A __post_init__ that computes nothing and leaves it all to later calls.
SamplesPostInitWithoutWeights(b, log_evidence, log_evidence_error, impl) ==
    [status |-> "ok",
     obj |-> Some([b EXCEPT !.log_evidence = log_evidence,
                            !.log_evidence_error = log_evidence_error])]

\* Samples.__post_init__ after the base class's: weights are computed when
\* the three densities are there, and the five init=False fields are set to
\* None otherwise (log_evidence and log_evidence_error keep the arguments).
SamplesPostInit(b, log_evidence, log_evidence_error, impl) ==
    LET s == [b EXCEPT !.log_evidence = log_evidence,
                       !.log_evidence_error = log_evidence_error]
    IN  IF HasAllDensities(s)
        THEN IF WeightsError(s) # "ok"
             THEN [status |-> WeightsError(s), obj |-> None]
             ELSE IF EvidenceError(s) # "ok"
             THEN [status |-> EvidenceError(s), obj |-> None]
             ELSE [status |-> "ok", obj |-> Some(ComputeWeights(s, impl))]
        ELSE [status |-> "ok",
              obj |-> Some([s EXCEPT !.log_w = None,
                                     !.weights = None,
                                     !.evidence = None,
                                     !.evidence_error = None,
                                     !.effective_sample_size = None])]

\* ------------------------------------------------------------- state
VARIABLES
    self,   \* the caller's sample set: None before it is constructed
    out,    \* what the last operation did: its name, how it ended, what it
            \* returned, and the set it was applied to as it was before
    drv     \* a running sample() call of a driver: its position, its local
            \* sets, and how often it has called fit and the kernel

vars == <<self, out, drv>>

NoOut ==
    [op |-> "none", status |-> "none", same |-> FALSE, obj |-> None,
     val |-> None, vec |-> None, pre |-> None, beta |-> None,
     n_samples |-> None, idx |-> <<>>, logu |-> <<>>, rng |-> None,
     drew |-> "none"]

Raised(op, s, err) == [NoOut EXCEPT !.op = op, !.status = err, !.pre = Some(s)]
Returned(op, s) == [NoOut EXCEPT !.op = op, !.status = "ok", !.pre = Some(s)]

\* ------------------------------------------------- Samples operations
\* An efficiency without the test of line 193.
EfficiencyUnguarded(s) ==
    IF IsNone(s.effective_sample_size)
    THEN [self |-> s, out |-> Raised("efficiency", s, "TypeError")]
    ELSE [self |-> s,
          out |-> [Returned("efficiency", s) EXCEPT
                     !.val = Some(DivInt(Val(s.effective_sample_size),
                                         Len(s.x)))]]

\* Samples.efficiency
Efficiency(s) ==
    IF IsNone(s.log_w)
    THEN [self |-> s, out |-> Raised("efficiency", s, "RuntimeError")]
    ELSE IF IsNone(s.effective_sample_size)
    THEN [self |-> s, out |-> Raised("efficiency", s, "TypeError")]
    ELSE [self |-> s,
          out |-> [Returned("efficiency", s) EXCEPT
                     !.val = Some(DivInt(Val(s.effective_sample_size),
                                         Len(s.x)))]]

\* Reading a dataclass field of Samples.
WeightFields ==
    {"log_w", "weights", "evidence", "effective_sample_size"}

ReadField(s, f) ==
    [self |-> s,
     out |-> [Returned(f, s) EXCEPT
                !.vec = IF f = "log_w" THEN s.log_w
                        ELSE IF f = "weights" THEN s.weights ELSE None,
                !.val = IF f = "evidence" THEN s.evidence
                        ELSE IF f = "effective_sample_size"
                             THEN s.effective_sample_size ELSE None]]

\* log_w - max(log_w)
Shifted(log_w) ==
    LET mx == LMax(log_w)
    IN  [i \in 1..Len(log_w) |-> LSub(log_w[i], mx)]

\* Samples.scaled_weights
ScaledWeights(s) ==
    IF IsNone(s.log_w)
    THEN [self |-> s, out |-> Raised("scaled_weights", s, "TypeError")]
    ELSE IF Len(Val(s.log_w)) = 0
    THEN [self |-> s, out |-> Raised("scaled_weights", s, "ValueError")]
    ELSE [self |-> s,
          out |-> [Returned("scaled_weights", s) EXCEPT
                     !.vec = Some([i \in 1..Len(Val(s.log_w)) |->
                                     Exp(Shifted(Val(s.log_w))[i])])]]

\* The caller's compute_weights(): the derived fields are stored on the set
\* itself and nothing is returned.  When line 200 raises, log_w is stored
\* already and stays.
CallComputeWeights(s, impl) ==
    IF WeightsError(s) # "ok"
    THEN [self |-> s, out |-> Raised("compute_weights", s, WeightsError(s))]
    ELSE IF EvidenceError(s) # "ok"
    THEN [self |-> [s EXCEPT !.log_w = Some(LogW(s))],
          out |-> Raised("compute_weights", s, EvidenceError(s))]
    ELSE [self |-> ComputeWeights(s, impl),
          out |-> Returned("compute_weights", s)]

\* An accept = log_w >= log_u
AcceptOrEqual(shifted, logu) ==
    [i \in 1..BroadcastLen(shifted, logu) |->
        LGt(At(shifted, i), At(logu, i)) \/ At(shifted, i) = At(logu, i)]

\* accept = log_w > log_u
Accept(shifted, logu) ==
    [i \in 1..BroadcastLen(shifted, logu) |->
        LGt(At(shifted, i), At(logu, i))]

\* A rejection_sample that drops the rejected rows from the set itself and
\* returns it.
RejectionSampleInPlace(s, logu) ==
    IF IsNone(s.log_w)
    THEN [self |-> s, out |-> Raised("rejection_sample", s, "TypeError")]
    ELSE IF Len(Val(s.log_w)) = 0 \/ ~Broadcastable(Val(s.log_w), logu)
    THEN [self |-> s, out |-> Raised("rejection_sample", s, "ValueError")]
    ELSE
      LET accept == Accept(Shifted(Val(s.log_w)), logu)
          idx == TrueIndices(accept, 1)
      IN  IF Len(accept) # Len(s.x)
             \/ Len(accept) # Len(Val(s.log_likelihood))
             \/ Len(accept) # Len(Val(s.log_prior))
          THEN [self |-> s,
                out |-> Raised("rejection_sample", s, "IndexError")]
          ELSE
            LET r == [s EXCEPT
                        !.x = Take(s.x, idx),
                        !.log_likelihood =
                            Some(Take(Val(s.log_likelihood), idx)),
                        !.log_prior = Some(Take(Val(s.log_prior), idx))]
            IN  [self |-> r,
                 out |-> [Returned("rejection_sample", s) EXCEPT
                            !.obj = Some(r), !.idx = idx, !.logu = logu]]

\* Samples.rejection_sample with the uniform draws u_i = exp(logu[i]).
RejectionSample(s, logu) ==
    IF IsNone(s.log_w)
    THEN [self |-> s, out |-> Raised("rejection_sample", s, "TypeError")]
    ELSE IF Len(Val(s.log_w)) = 0 \/ ~Broadcastable(Val(s.log_w), logu)
    THEN [self |-> s, out |-> Raised("rejection_sample", s, "ValueError")]
    ELSE
      LET accept == Accept(Shifted(Val(s.log_w)), logu)
          idx == TrueIndices(accept, 1)
      IN  IF Len(accept) # Len(s.x)
             \/ Len(accept) # Len(Val(s.log_likelihood))
             \/ Len(accept) # Len(Val(s.log_prior))
          THEN [self |-> s,
                out |-> Raised("rejection_sample", s, "IndexError")]
          ELSE
            LET r == SamplesPostInit(
                       BaseSamples("Samples", Take(s.x, idx),
                                   Some(Take(Val(s.log_likelihood), idx)),
                                   Some(Take(Val(s.log_prior), idx)),
                                   None, None),
                       None, None, AnyImpl)
            IN  [self |-> s,
                 out |-> [Returned("rejection_sample", s) EXCEPT
                            !.obj = r.obj, !.idx = idx, !.logu = logu]]

\* if rng is None: rng = np.random.default_rng(); rng.uniform(size=len(x)):
\* the generator the uniform draws are taken from, the caller's when there
\* is one and a freshly seeded one otherwise.
CallRejectionSample(s, rng, logu) ==
    LET r == RejectionSample(s, logu)
    IN  [self |-> r.self,
         out |-> [r.out EXCEPT
                    !.rng = rng, !.logu = logu,
                    !.drew = IF IsNone(rng) THEN "default" ELSE "supplied"]]

\* Assigning a density to a field of a constructed set (samples.log_prior =
\* ...): the field is replaced, nothing else is recomputed.
AttachDensity(s, f, v) ==
    [self |-> IF f = "log_likelihood" THEN [s EXCEPT !.log_likelihood = Some(v)]
              ELSE IF f = "log_prior" THEN [s EXCEPT !.log_prior = Some(v)]
              ELSE [s EXCEPT !.log_q = Some(v)],
     out |-> Returned("attach", s)]

\* ---------------------------------------------- SMCSamples operations
\* SMCSamples(...): the dataclass adds beta and log_evidence to the base
\* fields; it declares no log_evidence_error.
SMCSamples(b, beta, log_evidence) ==
    [b EXCEPT !.beta = beta, !.log_evidence = log_evidence]

\* The exception unnormalized_log_weights(beta) raises, "ok" if none.
UnnormalizedError(s, beta) ==
    IF IsNone(s.beta) \/ ~HasAllDensities(s) THEN "TypeError"
    ELSE IF ~Broadcastable(Val(s.log_likelihood), Val(s.log_prior))
            \/ ~Broadcastable(VAdd(Val(s.log_likelihood), Val(s.log_prior)),
                              Val(s.log_q))
         THEN "ValueError"
         ELSE "ok"

\* SMCSamples.unnormalized_log_weights
UnnormalizedLogWeights(s, beta) ==
    LET a == [i \in 1..Len(Val(s.log_q)) |->
                LScale(Val(s.beta) - beta, Val(s.log_q)[i])]
        t == VAdd(Val(s.log_likelihood), Val(s.log_prior))
        b == [i \in 1..Len(t) |-> LScale(beta - Val(s.beta), t[i])]
    IN  VAdd(a, b)

HasNaN(v) == \E i \in 1..Len(v) : IsNaN(v[i])

\* SMCSamples.log_weights: [status, vec]
LogWeights(s, beta, impl) ==
    IF UnnormalizedError(s, beta) # "ok"
    THEN [status |-> UnnormalizedError(s, beta), vec |-> None]
    ELSE
      LET log_w == UnnormalizedLogWeights(s, beta)
          ratio == LSub(LogSumExp(impl, log_w), LogInt(Len(s.x)))
          res == [i \in 1..Len(log_w) |-> LAdd(log_w[i], ratio)]
      IN  IF HasNaN(log_w) \/ Len(log_w) = 0 \/ Len(s.x) = 0
          THEN [status |-> "ValueError", vec |-> None]
          ELSE [status |-> "ok", vec |-> Some(res)]

CallLogWeights(s, beta, impl) ==
    LET r == LogWeights(s, Val(beta), impl)
    IN  [self |-> s,
         out |-> [NoOut EXCEPT !.op = "log_weights", !.status = r.status,
                               !.pre = Some(s), !.vec = r.vec,
                               !.beta = beta]]

\* w = exp(log_w - logsumexp(log_w))
ResampleProbabilities(log_w, impl) ==
    LET z == LogSumExp(impl, log_w)
    IN  [i \in 1..Len(log_w) |-> Exp(LSub(log_w[i], z))]

\* What np.random.choice(n, size, p=w) refuses: p of another length than n,
\* NaN in p, negative entries, a sum other than 1.
ChoiceRefuses(n, w) ==
    \/ Len(w) # n
    \/ HasNaN(w)
    \/ \E i \in 1..Len(w) : ~GeZero(w[i])
    \/ SumSeq(w) # Fin(1, 1)

\* The index vectors np.random.choice can return.
ChoiceDraws(size, w) ==
    [1..size -> {i \in 1..Len(w) : w[i].k = "fin" /\ w[i].n > 0}]

ResampleSize(s, n_samples) ==
    IF IsNone(n_samples) THEN Len(s.x) ELSE Val(n_samples)

\* A resample that hands log_q over as it is instead of its drawn rows.
ResampledWithWholeLogQ(s, idx, beta) ==
    SMCSamples(BaseSamples("SMCSamples", Take(s.x, idx),
                           Some(Take(Val(s.log_likelihood), idx)),
                           Some(Take(Val(s.log_prior), idx)),
                           s.log_q, None),
               beta, None)

\* The set resample builds from the drawn rows.
Resampled(s, idx, beta) ==
    SMCSamples(BaseSamples("SMCSamples", Take(s.x, idx),
                           Some(Take(Val(s.log_likelihood), idx)),
                           Some(Take(Val(s.log_prior), idx)),
                           Some(Take(Val(s.log_q), idx)), None),
               beta, None)

ResampleOut(s, beta, n_samples) ==
    [NoOut EXCEPT !.op = "resample", !.pre = Some(s), !.beta = beta,
                  !.n_samples = n_samples]

\* SMCSamples.resample(beta, n_samples) when np.random.choice draws idx.
Resample(s, beta, n_samples, idx, impl) ==
    IF beta = s.beta
    THEN [self |-> s,
          out |-> [ResampleOut(s, beta, n_samples) EXCEPT
                     !.status = "ok", !.same = TRUE, !.obj = Some(s)]]
    ELSE IF IsNone(beta)
    THEN [self |-> s,
          out |-> [ResampleOut(s, beta, n_samples) EXCEPT
                     !.status = "TypeError"]]
    ELSE
      LET lw == LogWeights(s, Val(beta), impl)
      IN  IF lw.status # "ok"
          THEN [self |-> s,
                out |-> [ResampleOut(s, beta, n_samples) EXCEPT
                           !.status = lw.status]]
          ELSE IF ChoiceRefuses(Len(s.x),
                                ResampleProbabilities(Val(lw.vec), impl))
          THEN [self |-> s,
                out |-> [ResampleOut(s, beta, n_samples) EXCEPT
                           !.status = "ValueError"]]
          ELSE IF \E k \in 1..Len(idx) :
                     \/ idx[k] > Len(Val(s.log_likelihood))
                     \/ idx[k] > Len(Val(s.log_prior))
                     \/ idx[k] > Len(Val(s.log_q))
          THEN [self |-> s,
                out |-> [ResampleOut(s, beta, n_samples) EXCEPT
                           !.status = "IndexError"]]
          ELSE [self |-> s,
                out |-> [ResampleOut(s, beta, n_samples) EXCEPT
                           !.status = "ok", !.idx = idx,
                           !.obj = Some(Resampled(s, idx, beta))]]

\* A call resample(beta, n_samples, rng=rng): the method takes beta and
\* n_samples alone, so a call that hands it a generator is refused before
\* its body runs; without one the indices are np.random.choice's, drawn from
\* the process-wide generator of np.random.
CallResample(s, beta, n_samples, rng, idx, impl) ==
    IF ~IsNone(rng)
    THEN [self |-> s,
          out |-> [ResampleOut(s, beta, n_samples) EXCEPT
                     !.status = "TypeError", !.rng = rng]]
    ELSE LET r == Resample(s, beta, n_samples, idx, impl)
         IN  [self |-> r.self,
              out |-> [r.out EXCEPT
                         !.drew = IF (r.out.status = "ok" /\ ~r.out.same)
                                      \/ r.out.status = "IndexError"
                                   THEN "default" ELSE "none"]]

\* SMCSamples.to_standard_samples: reads self.log_evidence_error, which the
\* set has only if a caller stored it there.
ToStandardSamples(s) ==
    IF ~s.has_log_evidence_error
    THEN [self |-> s,
          out |-> Raised("to_standard_samples", s, "AttributeError")]
    ELSE
      LET r == SamplesPostInit(
                 BaseSamples("Samples", s.x, s.log_likelihood, s.log_prior,
                             None, Some(s.parameters)),
                 s.log_evidence, s.log_evidence_error, AnyImpl)
      IN  [self |-> s,
           out |-> [Returned("to_standard_samples", s) EXCEPT
                      !.status = r.status, !.obj = r.obj]]

\* A caller that tracks the cumulative evidence on the tempered set stores
\* it there (samples.log_evidence = ...; samples.log_evidence_error = ...).
TrackEvidence(s, log_evidence, log_evidence_error) ==
    [self |-> [s EXCEPT !.log_evidence = Some(log_evidence),
                        !.log_evidence_error = Some(log_evidence_error),
                        !.has_log_evidence_error = TRUE],
     out |-> Returned("track_evidence", s)]

\* ------------------------------------------------------------- inputs
\* The draws a set is built from: each draw's <<log_likelihood, log_prior,
\* log_q>>.  Weight 1, weight 2, weight 0 (outside the prior), a draw where
\* the proposal has no density (log_w = +inf) and one where neither the
\* likelihood nor the proposal has (log_w = NaN).
Draws ==
    { <<Ln(1, 1), Ln(1, 1), Ln(1, 1)>>,
      <<Ln(2, 1), Ln(1, 1), Ln(1, 1)>>,
      <<Ln(1, 1), NInf, Ln(1, 1)>>,
      <<Ln(1, 1), Ln(1, 1), NInf>>,
      <<NInf, Ln(1, 1), NInf>> }

Column(rows, c) == [i \in 1..Len(rows) |-> rows[i][c]]
RowIds(n) == [i \in 1..n |-> i]

\* x and the densities handed to a constructor, any of the densities left
\* out: of matching lengths ...
MatchingInputs ==
    { [x |-> RowIds(n),
       ll |-> IF has[1] THEN Some(Column(rows, 1)) ELSE None,
       lp |-> IF has[2] THEN Some(Column(rows, 2)) ELSE None,
       lq |-> IF has[3] THEN Some(Column(rows, 3)) ELSE None] :
      n \in 0..MaxN, rows \in UNION {[1..m -> Draws] : m \in 0..MaxN},
      has \in [1..3 -> BOOLEAN] }

\* A density of the given length, left out for the length -1.
Ones(len) == IF len < 0 THEN None ELSE Some([i \in 1..len |-> Ln(1, 1)])

\* ... and of any lengths.
RaggedInputs ==
    { [x |-> RowIds(n), ll |-> Ones(a), lp |-> Ones(b), lq |-> Ones(c)] :
      n \in 0..MaxN, a \in -1..MaxN, b \in -1..MaxN, c \in -1..MaxN }

Inputs ==
    {i \in MatchingInputs :
        \A f \in {i.ll, i.lp, i.lq} : IsNone(f) \/ Len(Val(f)) = Len(i.x)}
    \cup RaggedInputs

\* The keyword arguments besides the densities: all left out, or all given.
SamplesKeywords ==
    { [parameters |-> None, log_evidence |-> None,
       log_evidence_error |-> None],
      [parameters |-> Some(<<"m">>), log_evidence |-> Some(Ln(2, 1)),
       log_evidence_error |-> Some(Fin(1, 4))] }
SMCKeywords ==
    { [parameters |-> None, log_evidence |-> None],
      [parameters |-> Some(<<"m">>), log_evidence |-> Some(Ln(2, 1))] }
Betas == {None, Some(0), Some(1)}
SizeArgs == {None, Some(1), Some(2)}
\* log(u) for the uniform draws u = 0 and u = 1/2
LogUs == {NInf, Ln(1, 2)}

\* The rng= argument: left out, or a generator in one of two states.  A
\* generator's draws are a function of its state: the i-th uniform draw of
\* the generator in state g, and its first n draws.
RngArgs == {None, Some("g1"), Some("g2")}
UniformAt(g, i) ==
    IF g = "g1" THEN (IF i % 2 = 1 THEN Ln(1, 2) ELSE NInf)
    ELSE (IF i % 2 = 1 THEN NInf ELSE Ln(1, 2))
Uniforms(g, n) == [i \in 1..n |-> UniformAt(g, i)]

\* The uniform draws a rejection_sample call can see.
UniformDraws(rng, n) ==
    IF IsNone(rng) THEN [1..n -> LogUs] ELSE {Uniforms(Val(rng), n)}

\* ------------------------------------------------------------ drivers
\* What the proposal flow, the kernel and the inverse transform hand back:
\* draws where the proposal has density.  x holds the draw's number, and
\* the density evaluators are functions of the draw.
FlowDraws ==
    << <<Ln(1, 1), Ln(1, 1), Ln(1, 1)>>,
       <<Ln(2, 1), Ln(1, 1), Ln(1, 1)>>,
       <<Ln(1, 1), NInf, Ln(1, 1)>> >>

Batches == UNION {[1..n -> 1..Len(FlowDraws)] : n \in 1..MaxN}

\* self.log_likelihood(samples), self.log_prior(samples) and the log_q of
\* prior_flow.sample_and_log_prob
EvalLogLikelihood(s) == [i \in 1..Len(s.x) |-> FlowDraws[s.x[i]][1]]
EvalLogPrior(s) == [i \in 1..Len(s.x) |-> FlowDraws[s.x[i]][2]]
FlowLogQ(x) == [i \in 1..Len(x) |-> FlowDraws[x[i]][3]]

NoDriver ==
    [kind |-> "none", pc |-> "idle", x |-> <<>>, samples |-> None,
     samples_evidence |-> None, samples_mcmc |-> None, fits |-> 0,
     runs |-> 0, steps |-> <<>>]

\* Samples(x, xp=self.xp, ...): a set with x alone.
SamplesOfX(x, parameters) ==
    Val(SamplesPostInit(BaseSamples("Samples", x, None, None, None, parameters),
                        None, None, AnyImpl).obj)

\* The sampler's parameters=, handed to the result.
DriverParameters == Some(<<"m">>)

\* ------------------------------------------------------------ actions
Init ==
    /\ self = None
    /\ out = NoOut
    /\ drv = NoDriver

Apply(r) ==
    /\ self' = Some(r.self)
    /\ out' = r.out
    /\ UNCHANGED drv

\* Samples(x, log_likelihood=, log_prior=, log_q=, parameters=,
\*         log_evidence=, log_evidence_error=)
NewSamples ==
    /\ IsNone(self)
    /\ drv.pc = "idle"
    /\ UNCHANGED drv
    /\ \E i \in Inputs, kw \in SamplesKeywords, impl \in LseImpls :
         LET r == SamplesPostInit(
                    BaseSamples("Samples", i.x, i.ll, i.lp, i.lq,
                                kw.parameters),
                    kw.log_evidence, kw.log_evidence_error, impl)
         IN  /\ self' = r.obj
             /\ out' = [NoOut EXCEPT !.op = "Samples", !.status = r.status,
                                     !.obj = r.obj]

\* SMCSamples(x, log_likelihood=, log_prior=, log_q=, parameters=, beta=,
\*            log_evidence=)
NewSMCSamples ==
    /\ IsNone(self)
    /\ drv.pc = "idle"
    /\ UNCHANGED drv
    /\ \E i \in Inputs, kw \in SMCKeywords, beta \in Betas :
         LET s == SMCSamples(
                    BaseSamples("SMCSamples", i.x, i.ll, i.lp, i.lq,
                                kw.parameters),
                    beta, kw.log_evidence)
         IN  /\ self' = Some(s)
             /\ out' = [NoOut EXCEPT !.op = "SMCSamples", !.status = "ok",
                                     !.obj = Some(s)]

\* The caller works on the set as its last constructor or storing operation
\* left it: a query returns without storing anything, and what can follow
\* it can follow the operation before it.
Settled ==
    out.op \in {"Samples", "SMCSamples", "attach", "compute_weights",
                "track_evidence"}

IsSamples == ~IsNone(self) /\ Val(self).cls = "Samples"
IsSMC == ~IsNone(self) /\ Val(self).cls = "SMCSamples"

GetEfficiency == IsSamples /\ Settled /\ Apply(Efficiency(Val(self)))

GetField == IsSamples /\ Settled /\ \E f \in WeightFields : Apply(ReadField(Val(self), f))

GetScaledWeights == IsSamples /\ Settled /\ Apply(ScaledWeights(Val(self)))

DoComputeWeights ==
    /\ IsSamples
    /\ Settled
    /\ \E impl \in LseImpls : Apply(CallComputeWeights(Val(self), impl))

DoRejectionSample ==
    /\ IsSamples
    /\ Settled
    /\ \E rng \in RngArgs :
         \E logu \in UniformDraws(rng, Len(Val(self).x)) :
            Apply(CallRejectionSample(Val(self), rng, logu))

\* The draws of s are rows: every density s holds is the rows' own.
Matches(s, rows) ==
    /\ IF IsNone(s.log_likelihood) THEN TRUE
       ELSE Val(s.log_likelihood) = Column(rows, 1)
    /\ IF IsNone(s.log_prior) THEN TRUE
       ELSE Val(s.log_prior) = Column(rows, 2)
    /\ IF IsNone(s.log_q) THEN TRUE ELSE Val(s.log_q) = Column(rows, 3)

\* A density the set was built without is attached afterwards.
Attach ==
    /\ IsSamples
    /\ Settled
    /\ \E rows \in [1..Len(Val(self).x) -> Draws] :
         /\ Matches(Val(self), rows)
         /\ \/ /\ IsNone(Val(self).log_likelihood)
               /\ Apply(AttachDensity(Val(self), "log_likelihood",
                                      Column(rows, 1)))
            \/ /\ IsNone(Val(self).log_prior)
               /\ Apply(AttachDensity(Val(self), "log_prior", Column(rows, 2)))
            \/ /\ IsNone(Val(self).log_q)
               /\ Apply(AttachDensity(Val(self), "log_q", Column(rows, 3)))

GetLogWeights ==
    /\ IsSMC
    /\ Settled
    /\ \E beta \in Betas \ {None}, impl \in LseImpls :
         Apply(CallLogWeights(Val(self), beta, impl))

\* The index vectors resample can draw: none when it returns or raises
\* before drawing.
ResampleDraws(s, beta, n_samples, impl) ==
    IF beta = s.beta \/ IsNone(beta) THEN {<<>>}
    ELSE LET lw == LogWeights(s, Val(beta), impl)
         IN  IF lw.status # "ok" THEN {<<>>}
             ELSE IF ChoiceRefuses(Len(s.x),
                                   ResampleProbabilities(Val(lw.vec), impl))
             THEN {<<>>}
             ELSE ChoiceDraws(ResampleSize(s, n_samples),
                              ResampleProbabilities(Val(lw.vec), impl))

DoResample ==
    /\ IsSMC
    /\ Settled
    /\ \E beta \in Betas, n_samples \in SizeArgs, impl \in LseImpls,
          rng \in RngArgs :
         \E idx \in (IF IsNone(rng)
                      THEN ResampleDraws(Val(self), beta, n_samples, impl)
                      ELSE {<<>>}) :
            Apply(CallResample(Val(self), beta, n_samples, rng, idx, impl))

DoToStandardSamples ==
    /\ IsSMC
    /\ Settled
    /\ Apply(ToStandardSamples(Val(self)))

DoTrackEvidence ==
    /\ IsSMC
    /\ Settled
    /\ ~Val(self).has_log_evidence_error
    /\ Apply(TrackEvidence(Val(self), Ln(3, 1), Fin(1, 4)))

\* ---- Emcee.sample, MiniPCN.sample and MCMCSampler.log_prob, one action
\* per call of a collaborator (the proposal flow, the transform, the
\* kernel, the density evaluators); each call returns or raises.  drv.steps
\* lists what sample() has got done: the calls that have returned, and the
\* kernel run from the moment it is entered.
Fails(op) ==
    /\ drv' = [drv EXCEPT !.pc = "raised", !.samples = None,
                          !.samples_evidence = None, !.samples_mcmc = None]
    /\ out' = [NoOut EXCEPT !.op = op, !.status = "raised"]
    /\ UNCHANGED self

\* sample() is entered; Emcee builds its EnsembleSampler first.
StartSample ==
    /\ IsNone(self)
    /\ out.op = "none"
    /\ drv.pc = "idle"
    /\ \E kind \in {"Emcee", "MiniPCN"} :
         \/ /\ drv' = [drv EXCEPT !.kind = kind, !.pc = "proposal"]
            /\ UNCHANGED <<self, out>>
         \/ /\ kind = "Emcee"
            /\ Fails("Emcee.sample")

\* p0 = self.prior_flow.sample(...)
DrawInitial ==
    /\ drv.pc = "proposal"
    /\ \/ /\ drv' = [drv EXCEPT !.pc = "fit",
                                !.steps = Append(@, "proposal")]
          /\ UNCHANGED <<self, out>>
       \/ Fails(drv.kind \o ".sample")

\* A fit whose failure is swallowed: sample() goes on to the kernel with
\* the initial population as it is.
FitIgnoringFailure ==
    /\ drv.pc = "fit"
    /\ \/ /\ drv' = [drv EXCEPT !.pc = "kernel", !.fits = @ + 1,
                                !.steps = Append(@, "fit")]
          /\ UNCHANGED <<self, out>>
       \/ /\ drv' = [drv EXCEPT !.pc = "kernel", !.fits = @ + 1]
          /\ UNCHANGED <<self, out>>
       \/ /\ drv.kind = "MiniPCN"
          /\ drv' = [drv EXCEPT !.pc = "raised", !.fits = @ + 1,
                                !.steps = Append(@, "fit")]
          /\ out' = [NoOut EXCEPT !.op = drv.kind \o ".sample",
                                  !.status = "raised"]
          /\ UNCHANGED self

\* z0 = to_numpy(self.preconditioning_transform.fit(p0)); MiniPCN then
\* builds its Sampler.
Fit ==
    /\ drv.pc = "fit"
    /\ \/ /\ drv' = [drv EXCEPT !.pc = "kernel", !.fits = @ + 1,
                                !.steps = Append(@, "fit")]
          /\ UNCHANGED <<self, out>>
       \/ /\ drv' = [drv EXCEPT !.pc = "raised", !.fits = @ + 1]
          /\ out' = [NoOut EXCEPT !.op = drv.kind \o ".sample",
                                  !.status = "raised"]
          /\ UNCHANGED self
       \/ /\ drv.kind = "MiniPCN"
          /\ drv' = [drv EXCEPT !.pc = "raised", !.fits = @ + 1,
                                !.steps = Append(@, "fit")]
          /\ out' = [NoOut EXCEPT !.op = drv.kind \o ".sample",
                                  !.status = "raised"]
          /\ UNCHANGED self

\* self.sampler.run_mcmc(z0, nsteps) / self.sampler.sample(z0, n_steps) is
\* entered.
RunKernel ==
    /\ drv.pc = "kernel"
    /\ drv' = [drv EXCEPT !.pc = "running", !.runs = @ + 1,
                          !.steps = Append(@, "kernel")]
    /\ UNCHANGED <<self, out>>

\* The kernel calls log_prob(z): x, log_abs_det_jacobian =
\* self.preconditioning_transform.inverse(z); samples = Samples(x, xp=self.xp)
LogProbInverse ==
    /\ drv.pc = "running"
    /\ \/ \E x \in Batches :
            /\ drv' = [drv EXCEPT !.pc = "lp_prior",
                                  !.samples = Some(SamplesOfX(x, None))]
            /\ UNCHANGED <<self, out>>
       \/ Fails(drv.kind \o ".sample")

\* samples.log_prior = self.log_prior(samples)
LogProbPrior ==
    /\ drv.pc = "lp_prior"
    /\ \/ /\ drv' = [drv EXCEPT
                       !.pc = "lp_likelihood",
                       !.samples = Some(AttachDensity(Val(drv.samples),
                           "log_prior", EvalLogPrior(Val(drv.samples))).self)]
          /\ UNCHANGED <<self, out>>
       \/ Fails(drv.kind \o ".sample")

\* samples.log_likelihood = self.log_likelihood(samples); the sum is
\* returned to the kernel and the set is dropped.
LogProbLikelihood ==
    /\ drv.pc = "lp_likelihood"
    /\ \/ /\ drv' = [drv EXCEPT !.pc = "running", !.samples = None]
          /\ out' = [NoOut EXCEPT
                       !.op = "log_prob", !.status = "ok",
                       !.obj = Some(AttachDensity(Val(drv.samples),
                                 "log_likelihood",
                                 EvalLogLikelihood(Val(drv.samples))).self),
                       !.vec = Some(VAdd(EvalLogLikelihood(Val(drv.samples)),
                                         Val(Val(drv.samples).log_prior)))]
          /\ UNCHANGED self
       \/ Fails(drv.kind \o ".sample")

\* The kernel returns its chain; z is taken from it and x =
\* self.preconditioning_transform.inverse(z)[0].  Emcee goes on to draw
\* x_evidence, MiniPCN builds samples_mcmc.
KernelReturns ==
    /\ drv.pc = "running"
    /\ \/ \E x \in Batches :
            /\ drv' = [drv EXCEPT
                         !.x = x,
                         !.steps = Append(@, "inverse"),
                         !.pc = IF drv.kind = "Emcee" THEN "evidence"
                                ELSE "mcmc_prior",
                         !.samples_mcmc =
                             IF drv.kind = "Emcee" THEN None
                             ELSE Some(SamplesOfX(x, DriverParameters))]
            /\ out' = NoOut
            /\ UNCHANGED self
       \/ Fails(drv.kind \o ".sample")

\* x_evidence, log_q = self.prior_flow.sample_and_log_prob(n_samples);
\* samples_evidence = Samples(x_evidence, log_q=log_q, xp=self.xp)
EvidenceDraw ==
    /\ drv.pc = "evidence"
    /\ \/ \E x \in Batches :
            /\ drv' = [drv EXCEPT
                         !.pc = "evidence_prior",
                         !.steps = Append(@, "evidence"),
                         !.samples_evidence =
                             SamplesPostInit(
                                 BaseSamples("Samples", x, None, None,
                                             Some(FlowLogQ(x)), None),
                                 None, None, AnyImpl).obj]
            /\ UNCHANGED <<self, out>>
       \/ Fails(drv.kind \o ".sample")

\* samples_evidence.log_prior = self.log_prior(samples_evidence)
EvidencePrior ==
    /\ drv.pc = "evidence_prior"
    /\ \/ /\ drv' = [drv EXCEPT
                       !.pc = "evidence_likelihood",
                       !.samples_evidence =
                           Some(AttachDensity(Val(drv.samples_evidence),
                                "log_prior",
                                EvalLogPrior(Val(drv.samples_evidence))).self)]
          /\ UNCHANGED <<self, out>>
       \/ Fails(drv.kind \o ".sample")

\* samples_evidence.log_likelihood = self.log_likelihood(samples_evidence);
\* samples_evidence.compute_weights();
\* samples_mcmc = Samples(x, xp=self.xp, parameters=self.parameters)
EvidenceLikelihood ==
    /\ drv.pc = "evidence_likelihood"
    /\ \/ \E impl \in LseImpls :
            /\ drv' = [drv EXCEPT
                         !.pc = "mcmc_prior",
                         !.samples_evidence =
                             Some(CallComputeWeights(
                                    AttachDensity(Val(drv.samples_evidence),
                                       "log_likelihood",
                                       EvalLogLikelihood(
                                           Val(drv.samples_evidence))).self,
                                    impl).self),
                         !.samples_mcmc =
                             Some(SamplesOfX(drv.x, DriverParameters))]
            /\ UNCHANGED <<self, out>>
       \/ Fails(drv.kind \o ".sample")

\* samples_mcmc.log_prior = array_to_namespace(self.log_prior(samples_mcmc))
McmcPrior ==
    /\ drv.pc = "mcmc_prior"
    /\ \/ /\ drv' = [drv EXCEPT
                       !.pc = "mcmc_likelihood",
                       !.samples_mcmc =
                           Some(AttachDensity(Val(drv.samples_mcmc),
                                "log_prior",
                                EvalLogPrior(Val(drv.samples_mcmc))).self)]
          /\ UNCHANGED <<self, out>>
       \/ Fails(drv.kind \o ".sample")

\* The set sample() returns: log_likelihood is stored on samples_mcmc, and
\* Emcee stores the evidence of samples_evidence on it as well.
Finished(d) ==
    LET m == AttachDensity(Val(d.samples_mcmc), "log_likelihood",
                           EvalLogLikelihood(Val(d.samples_mcmc))).self
    IN  IF d.kind = "Emcee"
        THEN [m EXCEPT
                !.log_evidence = Val(d.samples_evidence).log_evidence,
                !.log_evidence_error =
                    Val(d.samples_evidence).log_evidence_error]
        ELSE m

\* samples_mcmc.log_likelihood = ...; (Emcee: log_evidence and
\* log_evidence_error are stored;) return samples_mcmc
McmcLikelihood ==
    /\ drv.pc = "mcmc_likelihood"
    /\ \/ /\ drv' = [drv EXCEPT !.pc = "done", !.samples_evidence = None,
                                !.samples_mcmc = None,
                                !.steps = Append(@, "result")]
          /\ out' = [NoOut EXCEPT !.op = drv.kind \o ".sample",
                                  !.status = "ok",
                                  !.obj = Some(Finished(drv)),
                                  !.pre = drv.samples_mcmc]
          /\ UNCHANGED self
       \/ Fails(drv.kind \o ".sample")

Next ==
    \/ NewSamples
    \/ NewSMCSamples
    \/ GetEfficiency
    \/ GetField
    \/ GetScaledWeights
    \/ DoComputeWeights
    \/ DoRejectionSample
    \/ Attach
    \/ GetLogWeights
    \/ DoResample
    \/ DoToStandardSamples
    \/ DoTrackEvidence
    \/ StartSample
    \/ DrawInitial
    \/ Fit
    \/ RunKernel
    \/ LogProbInverse
    \/ LogProbPrior
    \/ LogProbLikelihood
    \/ KernelReturns
    \/ EvidenceDraw
    \/ EvidencePrior
    \/ EvidenceLikelihood
    \/ McmcPrior
    \/ McmcLikelihood

Spec == Init /\ [][Next]_vars

\* ------------------------------------------------------------- claims
Range(o) == {o[i] : i \in 1..Len(o)}
Present(f) == ~IsNone(f)

\* The Samples sets that exist in a state.
SamplesSets ==
    {s \in Range(self) \cup Range(out.obj) \cup Range(drv.samples)
           \cup Range(drv.samples_evidence) \cup Range(drv.samples_mcmc) :
        s.cls = "Samples"}

\* Which of log_w, weights, evidence, evidence_error and
\* effective_sample_size are present, and which of the two evidence fields.
FivePresent(s) ==
    {Present(s.log_w), Present(s.weights), Present(s.evidence),
     Present(s.evidence_error), Present(s.effective_sample_size)}
EvidencePresent(s) ==
    {Present(s.log_evidence), Present(s.log_evidence_error)}

\* C1 as stated: in every state each Samples set has log_w, weights,
\* evidence, evidence_error, log_evidence, log_evidence_error and
\* effective_sample_size all present or all absent.
C1_AllOrNone ==
    \A s \in SamplesSets :
       Cardinality(FivePresent(s) \cup EvidencePresent(s)) = 1

\* A set on which compute_weights has failed after storing log_w: it has no
\* draws, or its log_w is empty, and log_w is the only derived field there.
Stranded(s) ==
    /\ Present(s.log_w)
    /\ Len(s.x) = 0 \/ Len(Val(s.log_w)) = 0
    /\ {Present(s.weights), Present(s.evidence), Present(s.evidence_error),
        Present(s.effective_sample_size)} = {FALSE}

\* C1 amended: log_w, weights, evidence, evidence_error and
\* effective_sample_size are all present or all absent, except that a
\* compute_weights call that fails on a set without draws (or with empty
\* densities) leaves log_w behind alone; log_evidence and log_evidence_error
\* are present whenever weights are, and the two may also be present on a
\* set without weights (constructor arguments, Emcee's result).
C1_WeightsAllOrNone ==
    \A s \in SamplesSets :
       /\ Cardinality(FivePresent(s)) = 1 \/ Stranded(s)
       /\ Present(s.weights) => EvidencePresent(s) = {TRUE}

\* C1 witness: Emcee has returned a set that carries an evidence and its
\* error and no weights.
C1_Witness ==
    /\ out.op = "Emcee.sample"
    /\ out.status = "ok"
    /\ Present(Val(out.obj).log_evidence)
    /\ Present(Val(out.obj).log_evidence_error)
    /\ IsNone(Val(out.obj).log_w)

HasRows(s) == Present(s.log_likelihood) /\ Present(s.log_prior)

\* C2: to_standard_samples() on an SMCSamples with x, log_likelihood and
\* log_prior succeeds and returns a Samples with the same x, log_likelihood,
\* log_prior and parameters, the tempered set's log_evidence and
\* log_evidence_error, no log_q and no log_w.
C2_ToStandardSamples ==
    (out.op = "to_standard_samples" /\ HasRows(Val(out.pre))) =>
        /\ out.status = "ok"
        /\ Val(out.obj).cls = "Samples"
        /\ Val(out.obj).x = Val(out.pre).x
        /\ Val(out.obj).log_likelihood = Val(out.pre).log_likelihood
        /\ Val(out.obj).log_prior = Val(out.pre).log_prior
        /\ Val(out.obj).parameters = Val(out.pre).parameters
        /\ Val(out.obj).log_evidence = Val(out.pre).log_evidence
        /\ Val(out.obj).log_evidence_error = Val(out.pre).log_evidence_error
        /\ IsNone(Val(out.obj).log_q)
        /\ IsNone(Val(out.obj).log_w)

\* C3: resample(beta_target, n_samples), when it returns, returns the same
\* instance with no field changed exactly when beta_target is the set's
\* beta; otherwise a new SMCSamples at beta_target with n_samples rows (N
\* when not given), row k a copy of source row idx[k] in x, log_likelihood,
\* log_prior and log_q, no drawn row having resampling probability zero.
C3_Resample ==
    (out.op = "resample" /\ out.status = "ok") =>
        /\ out.same <=> (out.beta = Val(out.pre).beta)
        /\ out.same => (Val(out.obj) = Val(out.pre) /\ Val(self) = Val(out.pre))
        /\ ~out.same =>
             /\ Val(out.obj).cls = "SMCSamples"
             /\ Val(out.obj).beta = out.beta
             /\ Len(Val(out.obj).x) =
                  (IF IsNone(out.n_samples) THEN Len(Val(out.pre).x)
                   ELSE Val(out.n_samples))
             /\ Len(out.idx) = Len(Val(out.obj).x)
             /\ \A k \in 1..Len(out.idx) :
                  out.idx[k] \in 1..Len(Val(out.pre).x)
             /\ Val(out.obj).x = Take(Val(out.pre).x, out.idx)
             /\ Val(out.obj).log_likelihood =
                  Some(Take(Val(Val(out.pre).log_likelihood), out.idx))
             /\ Val(out.obj).log_prior =
                  Some(Take(Val(Val(out.pre).log_prior), out.idx))
             /\ Val(out.obj).log_q =
                  Some(Take(Val(Val(out.pre).log_q), out.idx))
             /\ \E impl \in LseImpls :
                  LET lw == LogWeights(Val(out.pre), Val(out.beta), impl)
                  IN  /\ lw.status = "ok"
                      /\ \A k \in 1..Len(out.idx) :
                           ResampleProbabilities(Val(lw.vec), impl)[out.idx[k]]
                              # Fin(0, 1)
             /\ Val(self) = Val(out.pre)

\* C3 witness: a resample to another beta that drew two rows from a set of
\* one row with probability zero and one with probability one.
C3_Witness ==
    /\ out.op = "resample"
    /\ out.status = "ok"
    /\ ~out.same
    /\ Len(Val(out.pre).x) = 2
    /\ out.idx = <<2, 2>>
    /\ Val(Val(out.pre).log_prior)[1] = NInf

\* All seven derived fields are present.
AllDerived(s) == FivePresent(s) \cup EvidencePresent(s) = {TRUE}

Derived(s) ==
    <<s.log_w, s.weights, s.evidence, s.evidence_error, s.log_evidence,
      s.log_evidence_error, s.effective_sample_size>>

\* C4 as stated: in every state, a Samples set that holds log_likelihood,
\* log_prior and log_q, supplied to the constructor or assigned afterwards,
\* holds all seven derived fields without a further operation.
C4_EagerOrLazy ==
    \A s \in SamplesSets : HasAllDensities(s) => AllDerived(s)

\* C4 amended: the derived fields are computed at construction when all
\* three densities are supplied; assigning a density afterwards computes
\* nothing, so the derived fields stay as they were, and they are all
\* present once a compute_weights call on the set has returned.
C4_EagerOrOnRequest ==
    /\ (out.op = "Samples" /\ out.status = "ok"
           /\ HasAllDensities(Val(out.obj))) => AllDerived(Val(out.obj))
    /\ out.op = "attach" => Derived(Val(self)) = Derived(Val(out.pre))
    /\ (out.op = "compute_weights" /\ out.status = "ok") =>
           AllDerived(Val(self))

\* C4 witness: the last missing density has been attached and the set
\* holds all three and no weights.
C4_Witness ==
    /\ out.op = "attach"
    /\ HasAllDensities(Val(self))
    /\ ~HasAllDensities(Val(out.pre))
    /\ IsNone(Val(self).log_w)
    /\ IsNone(Val(self).effective_sample_size)

\* The draws i of s with log_w[i] - max(log_w) > log(u_i), in source order.
Kept(s, logu) ==
    SelectSeq(RowIds(Len(s.x)),
              LAMBDA i : LGt(LSub(Val(s.log_w)[i], LMax(Val(s.log_w))),
                             logu[i]))

\* r holds exactly the kept draws of s: their x, log_likelihood and
\* log_prior, no log_q and no weights, and s is as it was.
RejectionRows(s, r, logu) ==
    /\ Len(Val(s.log_w)) = Len(s.x)
    /\ Len(logu) = Len(s.x)
    /\ r.cls = "Samples"
    /\ r.x = Take(s.x, Kept(s, logu))
    /\ r.log_likelihood = Some(Take(Val(s.log_likelihood), Kept(s, logu)))
    /\ r.log_prior = Some(Take(Val(s.log_prior), Kept(s, logu)))
    /\ IsNone(r.log_q)
    /\ FivePresent(r) = {FALSE}
    /\ Len(r.x) <= Len(s.x)
    /\ Val(self) = s

EqualLogW(s) ==
    \A i, j \in 1..Len(Val(s.log_w)) :
       ~IsNaN(Val(s.log_w)[i]) /\ Val(s.log_w)[i] = Val(s.log_w)[j]

\* C5 as stated: rejection_sample returns the draws with log_w[i] -
\* max(log_w) > log(u_i) in source order with their x, log_likelihood and
\* log_prior and no log_q, at most N rows, and all N rows when all weights
\* are equal.
C5_RejectionSample ==
    (out.op = "rejection_sample" /\ out.status = "ok") =>
        /\ RejectionRows(Val(out.pre), Val(out.obj), out.logu)
        /\ EqualLogW(Val(out.pre)) =>
              Len(Val(out.obj).x) = Len(Val(out.pre).x)

\* C5 amended: the same, with all N rows returned when all log-weights are
\* equal and finite (equal weights that are all zero or all infinite make
\* log_w - max(log_w) NaN, and no draw is accepted).
C5_RejectionSampleFinite ==
    (out.op = "rejection_sample" /\ out.status = "ok") =>
        /\ RejectionRows(Val(out.pre), Val(out.obj), out.logu)
        /\ (EqualLogW(Val(out.pre))
              /\ \A i \in 1..Len(Val(Val(out.pre).log_w)) :
                    IsFin(Val(Val(out.pre).log_w)[i])) =>
              Len(Val(out.obj).x) = Len(Val(out.pre).x)

\* C5 witness: of two draws with weights 1 and 2 and u = 1/2 for both, the
\* second alone is returned.
C5_Witness ==
    /\ out.op = "rejection_sample"
    /\ out.status = "ok"
    /\ Len(Val(out.pre).x) = 2
    /\ out.logu = <<Ln(1, 2), Ln(1, 2)>>
    /\ Val(Val(out.pre).log_w) = <<Ln(1, 1), Ln(2, 1)>>
    /\ Val(out.obj).x = <<2>>

\* What a set is constructed from, and the operations that return sets.
Given(s) ==
    <<s.cls, s.x, s.log_likelihood, s.log_prior, s.log_q, s.parameters,
      s.beta>>
Transformations ==
    {"compute_weights", "rejection_sample", "resample",
     "to_standard_samples"}
DriverCalls == {"Emcee.sample", "MiniPCN.sample"}

\* C6 as stated: compute_weights, rejection_sample and resample to another
\* beta return a new instance and leave every field of the set they are
\* applied to unchanged, and a set of a driver or of log_prob is, when it is
\* handed back, as it was constructed.
C6_NeverMutated ==
    /\ out.op \in Transformations =>
          /\ Val(self) = Val(out.pre)
          /\ (out.status = "ok" /\ ~out.same) => Present(out.obj)
    /\ (out.op \in DriverCalls \cup {"log_prob"} /\ out.status = "ok") =>
          Val(out.obj) =
             SamplesOfX(Val(out.obj).x, Some(Val(out.obj).parameters))

\* C6 amended: rejection_sample, resample to another beta and
\* to_standard_samples return a new instance and leave every field of the
\* set they are applied to unchanged; compute_weights returns nothing and
\* stores the derived fields on the set it is applied to, leaving its x,
\* log-densities and parameters unchanged (log_w alone when it raises on an
\* empty set, nothing when the densities do not add up); the drivers and
\* log_prob build a set from x and then store log_prior and log_likelihood
\* on it (Emcee the evidence and its error as well), leaving x unchanged.
C6_FrameEffects ==
    /\ out.op \in Transformations \ {"compute_weights"} =>
          /\ Val(self) = Val(out.pre)
          /\ (out.status = "ok" /\ ~out.same) => Present(out.obj)
    /\ out.op = "compute_weights" =>
          /\ IsNone(out.obj)
          /\ Given(Val(self)) = Given(Val(out.pre))
          /\ out.status = "ok" =>
                \E impl \in LseImpls :
                   Val(self) = ComputeWeights(Val(out.pre), impl)
          /\ out.status = "TypeError" => Val(self) = Val(out.pre)
          /\ out.status = "ValueError" =>
                \/ Val(self) = Val(out.pre)
                \/ Val(self) =
                     [Val(out.pre) EXCEPT !.log_w = Some(LogW(Val(out.pre)))]
    /\ (out.op \in DriverCalls \cup {"log_prob"} /\ out.status = "ok") =>
          /\ [Val(out.obj) EXCEPT !.log_prior = None,
                                  !.log_likelihood = None,
                                  !.log_evidence = None,
                                  !.log_evidence_error = None] =
                SamplesOfX(Val(out.obj).x, Some(Val(out.obj).parameters))
          /\ Present(Val(out.obj).log_prior)
          /\ Present(Val(out.obj).log_likelihood)
          /\ Present(Val(out.obj).log_evidence) <=> out.op = "Emcee.sample"

\* C6 witness: a compute_weights call has returned and the set it was
\* applied to, unweighted before, holds the weights.
C6_Witness ==
    /\ out.op = "compute_weights"
    /\ out.status = "ok"
    /\ IsNone(Val(out.pre).log_w)
    /\ Present(Val(self).log_w)
    /\ IsNone(out.obj)

Requests == {"efficiency", "scaled_weights"} \cup WeightFields

\* efficiency on a weighted set returns effective_sample_size / N.
EfficiencyOfWeighted ==
    (out.op = "efficiency" /\ Present(Val(out.pre).effective_sample_size)) =>
        /\ out.status = "ok"
        /\ out.val = Some(DivInt(Val(Val(out.pre).effective_sample_size),
                                 Len(Val(out.pre).x)))
        /\ Val(self) = Val(out.pre)

\* C7 as stated: on a Samples set without log_w, efficiency, weights,
\* log_w, scaled_weights, evidence and effective_sample_size fail instead of
\* returning a value and leave the set unchanged; on a weighted set
\* efficiency returns effective_sample_size / N.
C7_UsageError ==
    /\ (out.op \in Requests /\ IsNone(Val(out.pre).log_w)) =>
          /\ out.status # "ok"
          /\ Val(self) = Val(out.pre)
    /\ EfficiencyOfWeighted

\* C7 amended: on a Samples set without log_w, efficiency fails with the
\* usage error (RuntimeError), scaled_weights fails with a TypeError, and
\* weights, log_w, evidence and effective_sample_size are read as None
\* without an error; the set is unchanged in each case; on a weighted set
\* efficiency returns effective_sample_size / N.
C7_EfficiencyUsageError ==
    /\ (out.op \in Requests /\ IsNone(Val(out.pre).log_w)) =>
          /\ out.op = "efficiency" => out.status = "RuntimeError"
          /\ out.op = "scaled_weights" => out.status = "TypeError"
          /\ out.op \in WeightFields =>
                out.status = "ok" /\ IsNone(out.val) /\ IsNone(out.vec)
          /\ Val(self) = Val(out.pre)
    /\ EfficiencyOfWeighted

\* C7 witness: efficiency was requested of a set that holds all three
\* densities and no weights, and failed.
C7_Witness ==
    /\ out.op = "efficiency"
    /\ out.status = "RuntimeError"
    /\ HasAllDensities(Val(out.pre))
    /\ IsNone(Val(out.pre).log_w)

LengthsAgree(s) ==
    \A f \in {s.log_likelihood, s.log_prior, s.log_q} :
       IsNone(f) \/ Len(Val(f)) = Len(s.x)

\* C8: a constructor handed a log_likelihood, log_prior or log_q of another
\* length than x has rows fails, so that every set a constructor returns
\* has densities of the length of x.
C8_LengthsAgree ==
    (out.op \in {"Samples", "SMCSamples"} /\ out.status = "ok") =>
        LengthsAgree(Val(out.obj))

\* C9: the vector log_weights(beta) returns is the unnormalized log-weights
\* with the log evidence ratio added to every element, and holds no NaN.
C9_NeverNaN ==
    (out.op = "log_weights" /\ out.status = "ok") =>
        /\ \E impl \in LseImpls :
              LET v == UnnormalizedLogWeights(Val(out.pre), Val(out.beta))
                  ratio == LSub(LogSumExp(impl, v),
                                LogInt(Len(Val(out.pre).x)))
              IN  Val(out.vec) = [i \in 1..Len(v) |-> LAdd(v[i], ratio)]
        /\ ~HasNaN(Val(out.vec))

\* C10: on every Samples set on which compute_weights has run, of any
\* N >= 1, evidence_error and log_evidence_error are numbers >= 0.
C10_ErrorsNonNegative ==
    \A s \in SamplesSets :
       Present(s.evidence_error) =>
          /\ GeZero(Val(s.evidence_error))
          /\ GeZero(Val(s.log_evidence_error))

\* A resample(beta, n_samples) call on s gets as far as drawing indices.
ResampleDrawsIndices(s, beta, n_samples) ==
    /\ beta # s.beta
    /\ Present(beta)
    /\ \E impl \in LseImpls :
          /\ LogWeights(s, Val(beta), impl).status = "ok"
          /\ ~ChoiceRefuses(Len(s.x),
                ResampleProbabilities(
                    Val(LogWeights(s, Val(beta), impl).vec), impl))

\* C11: the uniform draws of rejection_sample and the index draws of
\* resample are taken from the caller's generator when the call is handed
\* one, the draws being those of the generator's state (so that a second
\* run from the same state selects the same rows), and from the
\* process-default generator only when it is handed none.
C11_SuppliedGenerator ==
    /\ (out.op = "rejection_sample" /\ Present(out.rng)) =>
          /\ out.drew = "supplied"
          /\ out.logu = Uniforms(Val(out.rng), Len(Val(out.pre).x))
    /\ (out.op = "resample" /\ Present(out.rng)
           /\ ResampleDrawsIndices(Val(out.pre), out.beta, out.n_samples)) =>
          /\ out.status = "ok"
          /\ out.drew = "supplied"
    /\ (out.op \in {"rejection_sample", "resample"} /\ IsNone(out.rng)) =>
          out.drew # "supplied"

\* The steps of a sample() call in their order; Emcee draws the set its
\* evidence is estimated on while it builds the result.
StepOrder(kind) ==
    IF kind = "Emcee"
    THEN <<"proposal", "fit", "kernel", "inverse", "evidence", "result">>
    ELSE <<"proposal", "fit", "kernel", "inverse", "result">>

IsPrefix(a, b) == Len(a) <= Len(b) /\ a = SubSeq(b, 1, Len(a))

\* C12: within one sample() call the steps happen in the order proposal,
\* fit, kernel, inverse, result; the kernel, and with it every log_prob
\* evaluation, starts only once fit has returned; fit and the kernel are
\* each invoked at most once; a failure ends the call with no set returned.
C12_StepOrder ==
    /\ IsPrefix(drv.steps, StepOrder(drv.kind))
    /\ drv.fits <= 1
    /\ drv.runs <= 1
    /\ drv.runs = 1 <=> Len(drv.steps) >= 3
    /\ (drv.fits = 1 /\ Len(drv.steps) < 2) => drv.pc = "raised"
    /\ drv.pc \in {"running", "lp_prior", "lp_likelihood"} =>
          drv.steps = <<"proposal", "fit", "kernel">>
    /\ out.op = "log_prob" => (drv.fits = 1 /\ drv.runs = 1)
    /\ drv.pc = "raised" =>
          /\ out.status = "raised"
          /\ IsNone(out.obj)
          /\ Len(drv.steps) < Len(StepOrder(drv.kind))
    /\ (out.op \in DriverCalls /\ out.status = "ok") =>
          /\ drv.pc = "done"
          /\ drv.steps = StepOrder(drv.kind)
          /\ Present(out.obj)
    /\ drv.pc = "done" => (out.op \in DriverCalls /\ out.status = "ok")

\* C12 witnesses: Emcee has returned its result after one fit and one
\* kernel run.
C12_Witness ==
    /\ out.op = "Emcee.sample"
    /\ out.status = "ok"
    /\ drv.steps = StepOrder("Emcee")
    /\ drv.fits = 1
    /\ drv.runs = 1

====
